---- MODULE Spec2Model ----
(***************************************************************************)
(* Classification metrics of rectools.metrics.classification:              *)
(* the confusion builder (calc_confusions, make_confusions), the formula   *)
(* layer (Precision, Recall, Accuracy, F1Beta, MCC), the from-confusion    *)
(* entry points and the batch driver calc_classification_metrics.          *)
(*                                                                         *)
(* Tables are sets of rows, a data frame of confusions is a function from  *)
(* column names to series (functions from user ids to numbers), a float    *)
(* is a triple <<tag, n, d>> (see the float section).                      *)
(***************************************************************************)
EXTENDS Integers, Sequences, FiniteSets, TLC

VARIABLES pc, reco, interactions, merged, k, catalog, confusion_df,
          metric, per_user, value, n_calls, metrics, results, raised, calls

vars == <<pc, reco, interactions, merged, k, catalog, confusion_df,
          metric, per_user, value, n_calls, metrics, results, raised, calls>>

(***************************************************************************)
(* Bounds of the model.                                                    *)
(***************************************************************************)
MaxRecoRows == 2
MaxInteractionRows == 2
MaxK == 2
MaxLiked == 2
MaxCatalog == 2
MaxCalls == 2
MaxMetrics == 2

\* User and item ids of the generated tables; ranks are positive integers.
Users == {1, 2}
Items == {1, 2}
Ranks == 1..MaxK
Ks == 0..MaxK

(***************************************************************************)
(* Column names (module constants of classification.py).                   *)
(***************************************************************************)
TP == "__TP"
FP == "__FP"
FN == "__FN"
TN == "__TN"
LIKED == "__LIKED"

(***************************************************************************)
(* Floats.  <<"num", n, d>> is the rational n/d in lowest terms, d > 0;    *)
(* <<"inf", s, 0>> is the infinity of sign s; NaN is <<"nan", 0, 0>>;      *)
(* <<"sqrt", n, d>> is n / sqrt(d) for d > 0 (the only irrational values   *)
(* the module produces, in MCC).                                           *)
(***************************************************************************)
NaN == <<"nan", 0, 0>>
Inf(s) == <<"inf", s, 0>>

Abs(x) == IF x < 0 THEN -x ELSE x
Sign(x) == IF x < 0 THEN -1 ELSE IF x > 0 THEN 1 ELSE 0

RECURSIVE GCD(_, _)
GCD(a, b) == IF b = 0 THEN a ELSE GCD(b, a % b)

\* The rational n/d, d # 0, in lowest terms with a positive denominator.
Rat(n, d) ==
    LET g == GCD(Abs(n), Abs(d))
        s == IF d < 0 THEN -1 ELSE 1
    IN <<"num", (s * n) \div g, (s * d) \div g>>

Num(n) == <<"num", n, 1>>
IsNum(x) == x[1] = "num"
IsNaN(x) == x[1] = "nan"
IsInf(x) == x[1] = "inf"
IsZero(x) == IsNum(x) /\ x[2] = 0

\* IEEE-754 division as numpy/pandas perform it on float series.
FDiv(x, y) ==
    IF IsNaN(x) \/ IsNaN(y) THEN NaN
    ELSE IF IsInf(x) THEN (IF IsInf(y) THEN NaN
                           ELSE Inf(x[2] * (IF y[2] < 0 THEN -1 ELSE 1)))
    ELSE IF IsInf(y) THEN Num(0)
    ELSE IF y[2] = 0 THEN (IF x[2] = 0 THEN NaN ELSE Inf(Sign(x[2])))
    ELSE Rat(x[2] * y[3], x[3] * y[2])

FMul(x, y) ==
    IF IsNaN(x) \/ IsNaN(y) THEN NaN
    ELSE IF IsInf(x) \/ IsInf(y)
         THEN (IF IsZero(x) \/ IsZero(y) THEN NaN ELSE Inf(Sign(x[2]) * Sign(y[2])))
    ELSE Rat(x[2] * y[2], x[3] * y[3])

FAdd(x, y) ==
    IF IsNaN(x) \/ IsNaN(y) THEN NaN
    ELSE IF IsInf(x) /\ IsInf(y) THEN (IF x[2] = y[2] THEN x ELSE NaN)
    ELSE IF IsInf(x) THEN x
    ELSE IF IsInf(y) THEN y
    ELSE Rat(x[2] * y[3] + y[2] * x[3], x[3] * y[3])

\* numerator / np.sqrt(radicand), both integers.
FDivSqrt(numerator, radicand) ==
    IF radicand < 0 THEN NaN
    ELSE IF radicand = 0 THEN (IF numerator = 0 THEN NaN ELSE Inf(Sign(numerator)))
    ELSE IF numerator = 0 THEN Num(0)
    ELSE <<"sqrt", numerator, radicand>>

(***************************************************************************)
(* Tables.  A recommendations row is [user_id, item_id, rank], an          *)
(* interactions row is [user_id, item_id].  A merged row carries the rank  *)
(* as a set: {r} when the item was recommended at rank r, {} when the rank *)
(* is missing (NaN), and the marker `interacted`.                          *)
(***************************************************************************)
RecoRows == [user_id : Users, item_id : Items, rank : Ranks]
InteractionRows == [user_id : Users, item_id : Items]

RECURSIVE SubsetsUpTo(_, _)
SubsetsUpTo(S, n) ==
    IF n = 0 THEN {{}}
    ELSE LET smaller == SubsetsUpTo(S, n - 1)
         IN smaller \cup {T \cup {x} : T \in smaller, x \in S}

\* Ranks are unique per user and an item is recommended to a user once.
ValidReco(t) ==
    \A r1 \in t, r2 \in t :
        (r1.user_id = r2.user_id /\ (r1.item_id = r2.item_id \/ r1.rank = r2.rank))
            => r1 = r2

\* The end-to-end scenario: users A = 1, B = 2; items x, y, z, p, q = 1..5.
ScenarioReco ==
    { [user_id |-> 1, item_id |-> 1, rank |-> 1], [user_id |-> 1, item_id |-> 2, rank |-> 2],
      [user_id |-> 2, item_id |-> 4, rank |-> 1], [user_id |-> 2, item_id |-> 5, rank |-> 2] }
ScenarioInteractions ==
    { [user_id |-> 1, item_id |-> 1], [user_id |-> 1, item_id |-> 3] }
ScenarioCatalog == 1..5

RecoTables ==
    {t \in SubsetsUpTo(RecoRows, MaxRecoRows) : ValidReco(t)} \cup {ScenarioReco}
InteractionTables ==
    SubsetsUpTo(InteractionRows, MaxInteractionRows) \cup {ScenarioInteractions}

\* catalog: a collection of unique item ids, or None.
NoCatalog == [is_none |-> TRUE, items |-> {}]
Catalog(items) == [is_none |-> FALSE, items |-> items]
Catalogs == {Catalog(1..n) : n \in 1..MaxCatalog} \cup {Catalog(ScenarioCatalog)}
len(c) == Cardinality(c.items)

\* Full outer join of recommendations and interactions on (user_id, item_id).
merge_reco(reco_, interactions_) ==
    { [user_id |-> r.user_id, item_id |-> r.item_id, rank |-> {r.rank},
       interacted |-> ([user_id |-> r.user_id, item_id |-> r.item_id] \in interactions_)]
        : r \in reco_ }
    \cup
    { [user_id |-> i.user_id, item_id |-> i.item_id, rank |-> {}, interacted |-> TRUE]
        : i \in {j \in interactions_ :
                    ~ \E r \in reco_ : r.user_id = j.user_id /\ r.item_id = j.item_id} }

(***************************************************************************)
(* Confusion builder.                                                      *)
(***************************************************************************)
\* `rank <= @k` of the eval expression: a missing rank compares False.
is_hit(row, k_) == \E r \in row.rank : r <= k_

UsersOf(table) == {row.user_id : row \in table}

\* groupby(user).agg("size"): the number of rows of each user.
GroupSize(table) ==
    [u \in UsersOf(table) |-> Cardinality({row \in table : row.user_id = u})]

\* groupby(user)["__is_hit"].agg("sum")
GroupSumHits(table, k_) ==
    [u \in UsersOf(table) |->
        Cardinality({row \in table : row.user_id = u /\ is_hit(row, k_)})]

\* calc_confusions with the subtraction of FN the wrong way round.
calc_confusions_SignSlip(merged_, k_) ==
    LET liked == GroupSize(merged_)
        tp == GroupSumHits(merged_, k_)
        fp == [u \in DOMAIN liked |-> k_ - tp[u]]
        fn == [u \in DOMAIN liked |-> tp[u] - liked[u]]
    IN [c \in {LIKED, TP, FP, FN} |->
            CASE c = LIKED -> liked
              [] c = TP -> tp
              [] c = FP -> fp
              [] c = FN -> fn]

calc_confusions(merged_, k_) ==
    LET liked == GroupSize(merged_)
        tp == GroupSumHits(merged_, k_)
        fp == [u \in DOMAIN liked |-> k_ - tp[u]]
        fn == [u \in DOMAIN liked |-> liked[u] - tp[u]]
    IN [c \in {LIKED, TP, FP, FN} |->
            CASE c = LIKED -> liked
              [] c = TP -> tp
              [] c = FP -> fp
              [] c = FN -> fn]

make_confusions(reco_, interactions_, k_) ==
    calc_confusions(merge_reco(reco_, interactions_), k_)

Index(df) == DOMAIN df[LIKED]

(***************************************************************************)
(* Metric objects.  cls is the class name; beta is used by F1Beta only,    *)
(* iqr_coef and random_state by the debiased classes only.                 *)
(***************************************************************************)
SimpleClasses == {"Precision", "Recall", "F1Beta"}
CatalogClasses == {"Accuracy", "MCC"}
DebiasClasses ==
    {"DebiasPrecision", "DebiasRecall", "DebiasF1Beta", "DebiasAccuracy", "DebiasMCC"}
\* A MetricAtK that is no classification metric (it has k and nothing else).
OtherClasses == {"NDCG"}
Betas == {1, 2}

\* The base class a debiased class derives its formula from.
BaseClass(cls) ==
    CASE cls = "DebiasPrecision" -> "Precision"
      [] cls = "DebiasRecall" -> "Recall"
      [] cls = "DebiasF1Beta" -> "F1Beta"
      [] cls = "DebiasAccuracy" -> "Accuracy"
      [] cls = "DebiasMCC" -> "MCC"
      [] OTHER -> cls

\* attrs defaults: beta = 1.0, iqr_coef = 1.5, random_state = 32.
DefaultBeta == 1
DefaultIqrCoef == Rat(3, 2)
DefaultRandomState == 32

Metric(cls, k_, beta) ==
    [cls |-> cls, k |-> k_, beta |-> beta,
     iqr_coef |-> DefaultIqrCoef, random_state |-> DefaultRandomState]

isinstance_SimpleClassificationMetric(m) == BaseClass(m.cls) \in SimpleClasses
isinstance_ClassificationMetric(m) == BaseClass(m.cls) \in CatalogClasses
isinstance_Debias(m) == m.cls \in DebiasClasses

(***************************************************************************)
(* Formula layer: _calc_per_user_from_confusion_df of each class.          *)
(***************************************************************************)
Precision_calc(m, df) ==
    [u \in Index(df) |-> FDiv(Num(df[TP][u]), Num(m.k))]

\* Recall with the zero denominator masked to 0.
Recall_calc_ZeroMasked(m, df) ==
    [u \in Index(df) |->
        IF df[LIKED][u] = 0 THEN Num(0) ELSE FDiv(Num(df[TP][u]), Num(df[LIKED][u]))]

Recall_calc(m, df) ==
    [u \in Index(df) |-> FDiv(Num(df[TP][u]), Num(df[LIKED][u]))]

Accuracy_calc(m, df, catalog_) ==
    [u \in Index(df) |-> FDiv(Num(df[TP][u] + df[TN][u]), Num(len(catalog_)))]

\* F1Beta without the override at p_k = r_k = 0.
F1Beta_calc_NoMask(m, df) ==
    [u \in Index(df) |->
        LET beta_sqr == m.beta * m.beta
            p_k == FDiv(Num(df[TP][u]), Num(m.k))
            r_k == FDiv(Num(df[TP][u]), Num(df[LIKED][u]))
        IN FDiv(FMul(FMul(Num(1 + beta_sqr), p_k), r_k),
                FAdd(FMul(Num(beta_sqr), p_k), r_k))]

F1Beta_calc(m, df) ==
    [u \in Index(df) |->
        LET beta_sqr == m.beta * m.beta
            p_k == FDiv(Num(df[TP][u]), Num(m.k))
            r_k == FDiv(Num(df[TP][u]), Num(df[LIKED][u]))
            f1 == FDiv(FMul(FMul(Num(1 + beta_sqr), p_k), r_k),
                       FAdd(FMul(Num(beta_sqr), p_k), r_k))
        IN IF IsZero(p_k) /\ IsZero(r_k) THEN Num(0) ELSE f1]

MCC_calc(m, df, catalog_) ==
    [u \in Index(df) |->
        LET tp_ == df[TP][u]
            tn_ == df[TN][u]
            fp_ == df[FP][u]
            fn_ == df[FN][u]
            mcc_numerator == tp_ * tn_ - fp_ * fn_
            radicand == (tp_ + fp_) * (tp_ + fn_) * (tn_ + fp_) * (tn_ + fn_)
            mcc == FDivSqrt(mcc_numerator, radicand)
        IN IF radicand = 0 THEN Num(0) ELSE mcc]

(***************************************************************************)
(* From-confusion entry points.                                            *)
(***************************************************************************)
\* WithTN with k left out of the TN formula.
WithTN_ForgetK(m, df, catalog_) ==
    IF TN \in DOMAIN df THEN df
    ELSE [c \in DOMAIN df \cup {TN} |->
            IF c = TN
            THEN [u \in Index(df) |-> len(catalog_) - df[FN][u]]
            ELSE df[c]]

\* The data frame after ClassificationMetric.calc_per_user_from_confusion_df:
\* the TN column is added in place when the frame has none.
WithTN(m, df, catalog_) ==
    IF TN \in DOMAIN df THEN df
    ELSE [c \in DOMAIN df \cup {TN} |->
            IF c = TN
            THEN [u \in Index(df) |-> len(catalog_) - m.k - df[FN][u]]
            ELSE df[c]]

\* The frame a from-confusion call of m leaves behind.
FrameAfter(m, df, catalog_) ==
    IF isinstance_ClassificationMetric(m) THEN WithTN(m, df, catalog_) ELSE df

calc_per_user_from_confusion_df(m, df, catalog_) ==
    CASE BaseClass(m.cls) = "Precision" -> Precision_calc(m, df)
      [] BaseClass(m.cls) = "Recall" -> Recall_calc(m, df)
      [] BaseClass(m.cls) = "F1Beta" -> F1Beta_calc(m, df)
      [] BaseClass(m.cls) = "Accuracy" -> Accuracy_calc(m, WithTN(m, df, catalog_), catalog_)
      [] BaseClass(m.cls) = "MCC" -> MCC_calc(m, WithTN(m, df, catalog_), catalog_)

\* Series.mean(): NaN entries are skipped; an empty or all-NaN series gives NaN.
\* A series with irrational entries keeps its mean as the bag of its terms.
RECURSIVE SumOver(_, _)
SumOver(series, us) ==
    IF us = {} THEN Num(0)
    ELSE LET u == CHOOSE v \in us : TRUE
         IN FAdd(series[u], SumOver(series, us \ {u}))

mean(series) ==
    LET valid == {u \in DOMAIN series : ~IsNaN(series[u])}
        vals == {series[u] : u \in valid}
    IN IF valid = {} THEN NaN
       ELSE IF \E u \in valid : series[u][1] = "sqrt"
       THEN <<"mean", [v \in vals |-> Cardinality({u \in valid : series[u] = v})],
              Cardinality(valid)>>
       ELSE FDiv(SumOver(series, valid), Num(Cardinality(valid)))

calc_from_confusion_df(m, df, catalog_) ==
    mean(calc_per_user_from_confusion_df(m, df, catalog_))

(***************************************************************************)
(* DebiasMetric.make_downsample: items whose popularity (number of rows)   *)
(* exceeds max_border = int(q3 + iqr_coef * (q3 - q1)) keep max_border     *)
(* rows, sampled under random_state; q1 and q3 are the quartiles of the    *)
(* item popularities.                                                      *)
(***************************************************************************)
Popularity(table, item) == Cardinality({row \in table : row.item_id = item})

\* The j-th smallest (from 0) popularity among the items of the table.
SortedPopularity(table, j) ==
    LET items == {row.item_id : row \in table}
    IN CHOOSE c \in {Popularity(table, i) : i \in items} :
          /\ Cardinality({i \in items : Popularity(table, i) < c}) <= j
          /\ j < Cardinality({i \in items : Popularity(table, i) <= c})

max_border(m, table) ==
    LET n == Cardinality({row.item_id : row \in table})
        q1 == SortedPopularity(table, (n - 1) \div 4)
        q3 == SortedPopularity(table, (3 * (n - 1)) \div 4)
    IN (q3 * m.iqr_coef[3] + m.iqr_coef[2] * (q3 - q1)) \div m.iqr_coef[3]

\* The sample of a too popular item: positions (by user id) shifted by the seed.
Sampled(m, table, row, border) ==
    LET n == Popularity(table, row.item_id)
        pos == Cardinality({r \in table : r.item_id = row.item_id /\ r.user_id < row.user_id})
    IN ((pos + m.random_state) % n) < border

make_downsample(m, table) ==
    IF table = {} THEN table
    ELSE LET border == max_border(m, table)
         IN {row \in table : Popularity(table, row.item_id) <= border
                                \/ Sampled(m, table, row, border)}

(***************************************************************************)
(* Raw-table entry point calc_per_user (base and debiased classes).        *)
(***************************************************************************)
\* InteractionsUsed of a debiased class that forgets its override.
InteractionsUsed_NoDownsample(m, interactions_) == interactions_

\* The interactions the confusions are built from.
InteractionsUsed(m, interactions_) ==
    IF isinstance_Debias(m) THEN make_downsample(m, interactions_) ELSE interactions_

\* make_confusions(reco, interactions, self.k) as calc_per_user calls it.
calc_per_user_confusions(m, reco_, interactions_) ==
    make_confusions(reco_, InteractionsUsed(m, interactions_), m.k)

calc_per_user(m, reco_, interactions_, catalog_) ==
    calc_per_user_from_confusion_df(
        m, calc_per_user_confusions(m, reco_, interactions_), catalog_)

\* calc: the average of calc_per_user between users.
calc(m, reco_, interactions_, catalog_) ==
    mean(calc_per_user(m, reco_, interactions_, catalog_))

(***************************************************************************)
(* Batch driver calc_classification_metrics.                               *)
(* metrics is the dict in insertion order: a sequence of [name, metric].   *)
(***************************************************************************)
Names(metrics_) == {metrics_[i].name : i \in DOMAIN metrics_}
MetricOf(metrics_, name) ==
    metrics_[CHOOSE i \in DOMAIN metrics_ : metrics_[i].name = name].metric

\* k_map: the keys in first-insertion order, each with its names in insertion order.
RECURSIVE k_map_from(_, _)
k_map_from(metrics_, i) ==
    IF i > Len(metrics_) THEN <<>>
    ELSE LET k_ == metrics_[i].metric.k
             seen == \E j \in 1..(i - 1) : metrics_[j].metric.k = k_
             same == SelectSeq(metrics_, LAMBDA e : e.metric.k = k_)
             entry == [k |-> k_, k_metrics |-> [j \in DOMAIN same |-> same[j].name]]
         IN (IF seen THEN <<>> ELSE <<entry>>) \o k_map_from(metrics_, i + 1)

k_map(metrics_) == k_map_from(metrics_, 1)

\* The (k, metric_name) pairs in the order the two nested loops visit them.
RECURSIVE LoopOrder(_)
LoopOrder(km) ==
    IF km = <<>> THEN <<>>
    ELSE [j \in DOMAIN km[1].k_metrics |-> [k |-> km[1].k, name |-> km[1].k_metrics[j]]]
            \o LoopOrder(Tail(km))

\* ConfusionInput with the downsampling applied for every metric.
ConfusionInput_AlwaysDownsample(m, merged_) == make_downsample(m, merged_)

\* The table one iteration hands to calc_confusions.
ConfusionInput(m, merged_) ==
    IF isinstance_Debias(m) THEN make_downsample(m, merged_) ELSE merged_

\* StoreResult keyed by the k of the group instead of the metric name.
StoreResult_ByK(results_, name, m, res) ==
    [n \in DOMAIN results_ \cup {m.k} |-> IF n = m.k THEN res ELSE results_[n]]

\* results[metric_name] = res
StoreResult(results_, name, m, res) ==
    [n \in DOMAIN results_ \cup {name} |-> IF n = name THEN res ELSE results_[n]]

\* RaisedBy without the check of the catalog.
RaisedBy_NoCatalogCheck(m, catalog_) ==
    IF isinstance_SimpleClassificationMetric(m) \/ isinstance_ClassificationMetric(m)
    THEN "None"
    ELSE "TypeError"

\* The exception an iteration raises after its confusion table is built.
RaisedBy(m, catalog_) ==
    IF isinstance_SimpleClassificationMetric(m) THEN "None"
    ELSE IF isinstance_ClassificationMetric(m)
         THEN (IF catalog_.is_none THEN "ValueError" ELSE "None")
    ELSE "TypeError"

\* One iteration of the inner loop; st = [results, calls, raised].
DriverStep(st, m, at, merged_, catalog_) ==
    LET table == ConfusionInput(m, merged_)
        confusion == calc_confusions(table, at.k)
        call == [name |-> at.name, merged |-> table, k |-> at.k,
                 debias |-> isinstance_Debias(m)]
        exc == RaisedBy(m, catalog_)
    IN IF exc # "None"
       THEN [results |-> st.results, calls |-> Append(st.calls, call), raised |-> exc]
       ELSE [results |-> StoreResult(st.results, at.name, m,
                                     calc_from_confusion_df(m, confusion, catalog_)),
             calls |-> Append(st.calls, call),
             raised |-> "None"]

RECURSIVE DriverLoop(_, _, _, _, _)
DriverLoop(st, order, metrics_, merged_, catalog_) ==
    IF order = <<>> \/ st.raised # "None" THEN st
    ELSE DriverLoop(
            DriverStep(st, MetricOf(metrics_, order[1].name), order[1], merged_, catalog_),
            Tail(order), metrics_, merged_, catalog_)

calc_classification_metrics(metrics_, merged_, catalog_) ==
    DriverLoop([results |-> <<>>, calls |-> <<>>, raised |-> "None"],
               LoopOrder(k_map(metrics_)), metrics_, merged_, catalog_)

(***************************************************************************)
(* Inputs of the calls.                                                    *)
(***************************************************************************)
BetasOf(cls) == IF BaseClass(cls) = "F1Beta" THEN Betas ELSE {DefaultBeta}

MetricsOf(classes, ks) ==
    UNION {{Metric(cls, k_, b) : k_ \in ks, b \in BetasOf(cls)} : cls \in classes}

BaseMetrics == MetricsOf(SimpleClasses \cup CatalogClasses, Ks)
ClassificationMetrics == MetricsOf(SimpleClasses \cup CatalogClasses \cup DebiasClasses, Ks)

\* The catalog argument of an entry point: the simple classes take none.
CatalogArgs(m) == IF isinstance_ClassificationMetric(m) THEN Catalogs ELSE {NoCatalog}

\* Confusion frames with valid rows for the k they were built at:
\* 0 <= TP <= min(k, liked), FP = k - TP, FN = liked - TP.
ValidRows(k_) ==
    {r \in [liked : 0..MaxLiked, tp : 0..MaxK] : r.tp <= k_ /\ r.tp <= r.liked}

FrameOf(k_, rows) ==
    [c \in {LIKED, TP, FP, FN} |->
        CASE c = LIKED -> [u \in DOMAIN rows |-> rows[u].liked]
          [] c = TP -> [u \in DOMAIN rows |-> rows[u].tp]
          [] c = FP -> [u \in DOMAIN rows |-> k_ - rows[u].tp]
          [] c = FN -> [u \in DOMAIN rows |-> rows[u].liked - rows[u].tp]]

\* Frames of no user and of one user: the formulas work row by row.
ConfusionFrames(k_) ==
    UNION {{FrameOf(k_, rows) : rows \in [idx -> ValidRows(k_)]} : idx \in {{}, {1}}}

\* Tables of the driver runs: the scenario, a table with one item more popular
\* than the other (user 1 and 2 both liked item 1), and the empty table.
PopularReco ==
    { [user_id |-> 1, item_id |-> 1, rank |-> 1], [user_id |-> 2, item_id |-> 2, rank |-> 1] }
PopularInteractions ==
    { [user_id |-> 1, item_id |-> 1], [user_id |-> 2, item_id |-> 1],
      [user_id |-> 1, item_id |-> 2] }

DriverMerged ==
    { merge_reco(ScenarioReco, ScenarioInteractions),
      merge_reco(PopularReco, PopularInteractions) }

\* The metric objects handed to the driver: two values of k, the default beta.
DriverKs == {1, 2}
DriverMetrics ==
    {Metric(cls, k_, DefaultBeta) :
        cls \in SimpleClasses \cup CatalogClasses \cup DebiasClasses \cup OtherClasses,
        k_ \in DriverKs}
DriverCatalogs == {NoCatalog, Catalog(ScenarioCatalog)}

\* Raw tables of the runs that compare the driver with the raw entry points:
\* the scenario, the popular tables, and a recommendation list of one hit, for
\* which item 1 stays the most popular item of the merged table.
HitReco == { [user_id |-> 1, item_id |-> 1, rank |-> 1] }
BatchTables ==
    { [reco |-> ScenarioReco, interactions |-> ScenarioInteractions],
      [reco |-> PopularReco, interactions |-> PopularInteractions],
      [reco |-> HitReco, interactions |-> PopularInteractions] }
BatchMetrics == {m \in DriverMetrics : m.cls \notin OtherClasses}
BatchDicts ==
    UNION {{[i \in 1..n |-> [name |-> i, metric |-> ms[i]]] : ms \in [1..n -> BatchMetrics]}
            : n \in 1..MaxMetrics}

\* Dicts of 1..MaxMetrics metrics; the name of the i-th inserted metric is i.
MetricDicts ==
    UNION {{[i \in 1..n |-> [name |-> i, metric |-> ms[i]]] : ms \in [1..n -> DriverMetrics]}
            : n \in 1..MaxMetrics}

(***************************************************************************)
(* State machine.  pc is the position of the caller: "start" before a call *)
(* from raw tables, "confusions" once a confusion frame exists, "per_user" *)
(* after a per-user call, "returned" / "raised" after a driver call,      *)
(* "calc" after a call of calc from raw tables.                            *)
(***************************************************************************)
NoMetric == Metric("None", 0, DefaultBeta)
NoFrame == <<>>
NoSeries == <<>>
NoValue == <<>>

Unset(vs) ==
    /\ ("reco" \in vs => reco = {})
    /\ ("interactions" \in vs => interactions = {})
    /\ ("merged" \in vs => merged = {})
    /\ ("k" \in vs => k = 0)
    /\ ("catalog" \in vs => catalog = NoCatalog)
    /\ ("confusion_df" \in vs => confusion_df = NoFrame)
    /\ ("metrics" \in vs => metrics = <<>>)
    /\ metric = NoMetric
    /\ per_user = NoSeries
    /\ value = NoValue
    /\ n_calls = 0
    /\ results = <<>>
    /\ raised = "None"
    /\ calls = <<>>

\* Raw tables are given; nothing has been called.
Init ==
    /\ pc = "start"
    /\ reco \in RecoTables
    /\ interactions \in InteractionTables
    /\ Unset({"merged", "k", "catalog", "confusion_df", "metrics"})

\* make_confusions(reco, interactions, k)
MakeConfusions(k_) ==
    /\ pc = "start"
    /\ merged' = merge_reco(reco, interactions)
    /\ k' = k_
    /\ confusion_df' = make_confusions(reco, interactions, k_)
    /\ pc' = "confusions"
    /\ UNCHANGED <<reco, interactions, catalog, metric, per_user, value, n_calls,
                   metrics, results, raised, calls>>

\* m.calc_per_user(reco, interactions[, catalog])
CalcPerUser(m, catalog_) ==
    /\ pc = "start"
    /\ LET confusion == calc_per_user_confusions(m, reco, interactions)
       IN /\ confusion_df' = FrameAfter(m, confusion, catalog_)
          /\ per_user' = calc_per_user_from_confusion_df(m, confusion, catalog_)
    /\ merged' = merge_reco(reco, InteractionsUsed(m, interactions))
    /\ k' = m.k
    /\ metric' = m
    /\ catalog' = catalog_
    /\ n_calls' = n_calls + 1
    /\ pc' = "per_user"
    /\ UNCHANGED <<reco, interactions, value, metrics, results, raised, calls>>

Next ==
    \/ \E k_ \in Ks : MakeConfusions(k_)
    \/ \E m \in ClassificationMetrics : \E c \in CatalogArgs(m) : CalcPerUser(m, c)

Spec == Init /\ [][Next]_vars

\* A confusion frame is given (built at k); metrics are applied to it in turn.
InitFormula ==
    /\ pc = "confusions"
    /\ k \in Ks
    /\ confusion_df \in ConfusionFrames(k)
    /\ Unset({"reco", "interactions", "merged", "catalog", "metrics"})

\* m.calc_per_user_from_confusion_df(confusion_df[, catalog])
CalcPerUserFromConfusion(m, catalog_) ==
    /\ pc \in {"confusions", "per_user"}
    /\ n_calls < MaxCalls
    /\ metric' = m
    /\ catalog' = catalog_
    /\ confusion_df' = FrameAfter(m, confusion_df, catalog_)
    /\ per_user' = calc_per_user_from_confusion_df(m, confusion_df, catalog_)
    /\ n_calls' = n_calls + 1
    /\ pc' = "per_user"
    /\ UNCHANGED <<reco, interactions, merged, k, value, metrics, results, raised, calls>>

NextFormula ==
    \E m \in BaseMetrics : \E c \in CatalogArgs(m) : CalcPerUserFromConfusion(m, c)

SpecFormula == InitFormula /\ [][NextFormula]_vars

\* A merged table, a dict of metrics and a catalog (or None) are given.
InitDriver ==
    /\ pc = "start"
    /\ merged \in DriverMerged
    /\ metrics \in MetricDicts
    /\ catalog \in DriverCatalogs
    /\ Unset({"reco", "interactions", "k", "confusion_df"})

\* calc_classification_metrics(metrics, merged, catalog)
CalcClassificationMetrics ==
    /\ pc = "start"
    /\ LET out == calc_classification_metrics(metrics, merged, catalog)
       IN /\ calls' = out.calls
          /\ raised' = out.raised
          /\ results' = IF out.raised = "None" THEN out.results ELSE <<>>
          /\ pc' = IF out.raised = "None" THEN "returned" ELSE "raised"
    /\ UNCHANGED <<reco, interactions, merged, k, catalog, confusion_df,
                   metric, per_user, value, n_calls, metrics>>

NextDriver == CalcClassificationMetrics

SpecDriver == InitDriver /\ [][NextDriver]_vars

\* Raw tables, their merged table, a dict of classification metrics and a
\* catalog are given: the driver and the raw entry points see the same data.
InitBatch ==
    /\ pc = "start"
    /\ \E t \in BatchTables :
          /\ reco = t.reco
          /\ interactions = t.interactions
          /\ merged = merge_reco(t.reco, t.interactions)
    /\ metrics \in BatchDicts
    /\ catalog = Catalog(ScenarioCatalog)
    /\ Unset({"k", "confusion_df"})

\* m.calc(reco, interactions[, catalog]) for a metric of the dict.
Calc(m) ==
    /\ pc \in {"start", "returned"}
    /\ LET series == calc_per_user(m, reco, interactions, catalog)
       IN /\ per_user' = series
          /\ value' = mean(series)
    /\ metric' = m
    /\ k' = m.k
    /\ n_calls' = n_calls + 1
    /\ pc' = "calc"
    /\ UNCHANGED <<reco, interactions, merged, catalog, confusion_df,
                   metrics, results, raised, calls>>

NextBatch ==
    \/ CalcClassificationMetrics
    \/ \E i \in DOMAIN metrics : Calc(metrics[i].metric)

SpecBatch == InitBatch /\ [][NextBatch]_vars

(***************************************************************************)
(* Properties of the confusion builder (specification Spec).               *)
(***************************************************************************)
RowsOf(table, u) == {row \in table : row.user_id = u}

\* C2: for every user of the merged table (the full outer join of the raw
\* tables), liked is the number of the user's rows with an interaction and
\* TP the number of the user's rows with a rank <= k and an interaction.
C2_LikedAndTPCountInteractions ==
    pc = "confusions" =>
        \A u \in UsersOf(merged) :
            /\ u \in Index(confusion_df)
            /\ confusion_df[LIKED][u] =
                    Cardinality({row \in RowsOf(merged, u) : row.interacted})
            /\ confusion_df[TP][u] =
                    Cardinality({row \in RowsOf(merged, u) : is_hit(row, k) /\ row.interacted})

ScenarioGiven == reco = ScenarioReco /\ interactions = ScenarioInteractions

ScenarioExpected ==
    FrameOf(2, [u \in {1, 2} |-> IF u = 1 THEN [liked |-> 2, tp |-> 1]
                                          ELSE [liked |-> 0, tp |-> 0]])

C7_EndToEndScenario ==
    /\ (ScenarioGiven /\ pc = "confusions" /\ k = 2) => confusion_df = ScenarioExpected
    /\ (ScenarioGiven /\ pc = "per_user" /\ k = 2 /\ metric.cls = "Accuracy"
            /\ catalog = Catalog(ScenarioCatalog))
         => /\ Index(confusion_df) = {1, 2}
            /\ confusion_df[TN][1] = 2 /\ confusion_df[TN][2] = 3
    /\ (ScenarioGiven /\ pc = "per_user" /\ k = 2 /\ metric.cls = "Precision")
         => per_user = [u \in {1, 2} |-> IF u = 1 THEN Rat(1, 2) ELSE Num(0)]
    /\ (ScenarioGiven /\ pc = "per_user" /\ k = 2 /\ metric.cls = "Recall")
         => per_user = [u \in {1, 2} |-> IF u = 1 THEN Rat(1, 2) ELSE NaN]

(***************************************************************************)
(* Properties of the formula layer (specification SpecFormula).            *)
(***************************************************************************)
\* C8: F-beta is exactly 0 on every row with precision = 0 and recall = 0,
\* and MCC is exactly 0 on every row whose four-factor product is 0.
C8_SingularPointsGiveZero ==
    pc = "per_user" =>
        \A u \in Index(confusion_df) :
            /\ (metric.cls = "F1Beta"
                    /\ IsZero(Precision_calc(metric, confusion_df)[u])
                    /\ IsZero(Recall_calc(metric, confusion_df)[u]))
                => per_user[u] = Num(0)
            /\ (metric.cls = "MCC"
                    /\ (confusion_df[TP][u] + confusion_df[FP][u])
                        * (confusion_df[TP][u] + confusion_df[FN][u])
                        * (confusion_df[TN][u] + confusion_df[FP][u])
                        * (confusion_df[TN][u] + confusion_df[FN][u]) = 0)
                => per_user[u] = Num(0)

\* F-beta was applied to a row with no hit, liked > 0 and k > 0.
C8_Witness ==
    /\ pc = "per_user"
    /\ metric.cls = "F1Beta"
    /\ metric.k > 0
    /\ \E u \in Index(confusion_df) :
          confusion_df[TP][u] = 0 /\ confusion_df[LIKED][u] > 0 /\ per_user[u] = Num(0)

\* C9: Recall on a row with liked = 0 is the undefined value (NaN), not 0.
C9_RecallUndefinedWhenNothingLiked ==
    (pc = "per_user" /\ metric.cls = "Recall") =>
        \A u \in Index(confusion_df) :
            confusion_df[LIKED][u] = 0 => (IsNaN(per_user[u]) /\ per_user[u] # Num(0))

C9_Witness ==
    /\ pc = "per_user"
    /\ metric.cls = "Recall"
    /\ \E u \in Index(confusion_df) : confusion_df[LIKED][u] = 0 /\ IsNaN(per_user[u])

\* Accuracy was applied at the k the frame was built at, and computed TN itself.
AccuracyOnFreshFrame ==
    /\ pc = "per_user"
    /\ metric.cls = "Accuracy"
    /\ metric.k = k
    /\ n_calls = 1

AccuracyInUnitInterval(u) ==
    /\ confusion_df[TN][u] = len(catalog) - k - confusion_df[FN][u]
    /\ 0 <= confusion_df[TP][u] + confusion_df[TN][u]
    /\ confusion_df[TP][u] + confusion_df[TN][u] <= len(catalog)
    /\ IsNum(per_user[u]) /\ 0 <= per_user[u][2] /\ per_user[u][2] <= per_user[u][3]

\* C10 as stated: for any valid confusion row and catalog_size >= k the
\* accuracy (TP + TN) / catalog_size, TN = catalog_size - k - FN, is in [0, 1].
C10_AccuracyInUnitInterval_Original ==
    (AccuracyOnFreshFrame /\ len(catalog) >= k) =>
        \A u \in Index(confusion_df) : AccuracyInUnitInterval(u)

\* C10 amended: for any valid confusion row and catalog_size >= k with
\* catalog_size >= FP + FN, the accuracy is in [0, 1].
C10_AccuracyInUnitInterval ==
    (AccuracyOnFreshFrame /\ len(catalog) >= k) =>
        \A u \in Index(confusion_df) :
            confusion_df[FP][u] + confusion_df[FN][u] <= len(catalog)
                => AccuracyInUnitInterval(u)

\* An accuracy strictly between 0 and 1 on a row with a hit and a miss.
C10_Witness ==
    /\ AccuracyOnFreshFrame
    /\ len(catalog) >= k
    /\ \E u \in Index(confusion_df) :
          /\ confusion_df[FP][u] + confusion_df[FN][u] <= len(catalog)
          /\ confusion_df[TP][u] >= 1 /\ confusion_df[FN][u] >= 1
          /\ 0 < per_user[u][2] /\ per_user[u][2] < per_user[u][3]

(***************************************************************************)
(* Properties of the batch driver (specification SpecDriver).              *)
(***************************************************************************)
Recognized(m) == isinstance_SimpleClassificationMetric(m) \/ isinstance_ClassificationMetric(m)
MetricsIn(metrics_) == {metrics_[i].metric : i \in DOMAIN metrics_}

\* C1: within one driver call the confusion table is built at most once per
\* (k, debias-bucket) pair.
C1_OneBuildPerKAndBucket ==
    \A i \in DOMAIN calls, j \in DOMAIN calls :
        (calls[i].k = calls[j].k /\ calls[i].debias = calls[j].debias) => i = j

\* C4: a catalog-dependent metric among recognized metrics, with catalog None,
\* makes the driver raise ValueError and return nothing, whatever the order.
C4_ValueErrorWithoutCatalog ==
    (/\ pc # "start"
     /\ catalog.is_none
     /\ \E m \in MetricsIn(metrics) : isinstance_ClassificationMetric(m)
     /\ \A m \in MetricsIn(metrics) : Recognized(m))
        => (pc = "raised" /\ raised = "ValueError" /\ results = <<>>)

\* The catalog-dependent metric comes after a metric that was evaluated.
C4_Witness ==
    /\ pc = "raised"
    /\ raised = "ValueError"
    /\ Len(metrics) >= 2
    /\ isinstance_SimpleClassificationMetric(metrics[1].metric)
    /\ isinstance_ClassificationMetric(metrics[Len(metrics)].metric)
    /\ Len(calls) >= 2

\* C5: an unrecognized object in the dict makes the driver raise TypeError,
\* return nothing, and build no confusion table for that object.
C5_TypeErrorFailsFast ==
    (pc # "start" /\ \E m \in MetricsIn(metrics) : ~Recognized(m))
        => /\ pc = "raised" /\ raised = "TypeError" /\ results = <<>>
           /\ \A i \in DOMAIN calls : Recognized(MetricOf(metrics, calls[i].name))

\* C6: a normal return has exactly the keys of the input dict.
C6_ResultKeysEqualMetricKeys ==
    pc = "returned" => DOMAIN results = Names(metrics)

\* Two names sharing one k, and a dict mixing two values of k, both returned.
C6_Witness ==
    /\ pc = "returned"
    /\ Len(metrics) >= 2
    /\ metrics[1].metric.k = metrics[2].metric.k
    /\ Cardinality(DOMAIN results) >= 2

(***************************************************************************)
(* Properties of MCC and of the TN column.                                 *)
(***************************************************************************)
MCCNumerator(df, u) == df[TP][u] * df[TN][u] - df[FP][u] * df[FN][u]
MCCRadicand(df, u) ==
    (df[TP][u] + df[FP][u]) * (df[TP][u] + df[FN][u])
        * (df[TN][u] + df[FP][u]) * (df[TN][u] + df[FN][u])

\* C12: on every confusion row built by calc_confusions, with
\* TN = catalog_size - k - FN, a zero MCC denominator means a zero numerator.
C12_ZeroDenominatorMeansZeroNumerator ==
    (pc = "per_user" /\ metric.cls = "MCC") =>
        \A u \in Index(confusion_df) :
            (/\ confusion_df[TN][u] = len(catalog) - k - confusion_df[FN][u]
             /\ MCCRadicand(confusion_df, u) = 0)
                => MCCNumerator(confusion_df, u) = 0

\* The frame without its TN column: what a caller with a fresh frame passes.
StripTN(df) == [c \in DOMAIN df \ {TN} |-> df[c]]

\* C13: after any sequence of from-confusion calls of Accuracy or MCC on one
\* frame, the TN the last call used is catalog_size - k - FN for its own
\* catalog and k, and its result is the one it gives on a fresh frame.
C13_TNIsOfTheCallItself ==
    (pc = "per_user" /\ metric.cls \in CatalogClasses) =>
        /\ \A u \in Index(confusion_df) :
              confusion_df[TN][u] = len(catalog) - metric.k - confusion_df[FN][u]
        /\ per_user = calc_per_user_from_confusion_df(metric, StripTN(confusion_df), catalog)

(***************************************************************************)
(* Properties relating the driver and the raw entry points                 *)
(* (specification SpecBatch).                                              *)
(***************************************************************************)
\* The base metric of a debiased one: same k and beta, the base class.
BaseMetric(m) == [m EXCEPT !.cls = BaseClass(m.cls)]

DebiasNames == {n \in Names(metrics) : isinstance_Debias(MetricOf(metrics, n))}
BaseNames == Names(metrics) \ DebiasNames

\* C11: a debiased metric is its base metric after make_downsample: from raw
\* tables its per-user result is the base metric's on the same recommendations
\* and the downsampled interactions, and in the driver its value is the base
\* formula on the confusion table of the downsampled merged table at its k.
C11_DebiasIsBaseAfterDownsample ==
    /\ (pc = "calc" /\ isinstance_Debias(metric)) =>
            per_user = calc_per_user(BaseMetric(metric), reco,
                                     make_downsample(metric, interactions), catalog)
    /\ pc \in {"returned", "calc"} =>
            \A n \in DebiasNames \cap DOMAIN results :
                LET m == MetricOf(metrics, n)
                IN results[n] = calc_from_confusion_df(
                                    BaseMetric(m),
                                    calc_confusions(make_downsample(m, merged), m.k),
                                    catalog)

\* A debiased metric was computed both ways on tables the downsampling
\* shortens, and its raw per-user result is not the base metric's on the
\* full interactions.
C11_Witness ==
    /\ pc = "calc"
    /\ isinstance_Debias(metric)
    /\ make_downsample(metric, interactions) # interactions
    /\ make_downsample(metric, merged) # merged
    /\ per_user # calc_per_user(BaseMetric(metric), reco, interactions, catalog)
    /\ \E n \in DebiasNames \cap DOMAIN results : MetricOf(metrics, n) = metric

Reverse(seq) == [i \in DOMAIN seq |-> seq[Len(seq) + 1 - i]]

\* C14: for every non-debiased metric of the dict, the driver's value on
\* merged = merge_reco(reco, interactions) is the value of the metric's calc on
\* the raw tables and the catalog; it is the same with the metric alone in
\* the dict and with the dict in the reverse order.
C14_DriverEqualsCalc ==
    /\ pc \in {"returned", "calc"} =>
            \A n \in BaseNames \cap DOMAIN results :
                LET m == MetricOf(metrics, n)
                IN /\ results[n] = calc(m, reco, interactions, catalog)
                   /\ results[n] =
                        calc_classification_metrics(
                            <<[name |-> n, metric |-> m]>>, merged, catalog).results[n]
                   /\ results[n] =
                        calc_classification_metrics(
                            Reverse(metrics), merged, catalog).results[n]
    /\ (pc = "calc" /\ ~isinstance_Debias(metric)) =>
            \A n \in DOMAIN results : MetricOf(metrics, n) = metric => results[n] = value

\* The driver returned for a dict of two metrics with different k, one of
\* them debiased, on tables the downsampling shortens, and calc was called
\* for the non-debiased one and gave a number.
C14_Witness ==
    /\ pc = "calc"
    /\ ~isinstance_Debias(metric)
    /\ IsNum(value)
    /\ ~IsZero(value)
    /\ Len(metrics) = 2
    /\ metrics[1].metric.k # metrics[2].metric.k
    /\ DebiasNames # {}
    /\ make_downsample(metric, merged) # merged
    /\ \E n \in BaseNames \cap DOMAIN results : MetricOf(metrics, n) = metric

====
